---- MODULE Spec2Model ----
(***************************************************************************)
(* Layout engine of git-tree (src/main.go): collectCommits' output, the    *)
(* chrono-topological sort ctsort, the gap helper and the per-commit       *)
(* placement loop of arrangeCommits.                                       *)
(*                                                                         *)
(* Commit hashes are the numbers 1..n; Missing (0) is the hash of a parent *)
(* whose object is not in the repository (shallow history).  Ref names are *)
(* the strings of Refs.  Go maps are functions on a finite domain.         *)
(***************************************************************************)
EXTENDS Integers, Sequences, FiniteSets, TLC

\* ---------------------------------------------------------------- bounds
MaxCommits == 3
MaxTime == 2
MaxShallow == 1
MaxCommitsTwice == 2
MaxLevel == 4
MaxSortCommits == 2
MaxMainCommits == 2
MaxObjects == 2
MaxConfigLines == 4
MaxReflogLines == 3
MaxPlaceCommits == 3

\* ------------------------------------------------------------ vocabulary
Missing == 0

Main == "refs/heads/main"
Feature == "refs/heads/feature"
Refs == {Main, Feature}

NoCommit == -1

Range(f) == {f[k] : k \in DOMAIN f}

SetMin(S) == CHOOSE m \in S : \A o \in S : m <= o

SetMax(S) == CHOOSE m \in S : \A o \in S : m >= o

EmptyMap == [k \in {} |-> 0]

VARIABLES
    commits,        \* hash -> [When, ParentHashes, References]
    heads,          \* hash -> sequence of ref names whose tip is the hash
    children,       \* hash -> set of child hashes
    pc,             \* "start", "ctsort", "place", "done"
    sortedCommits,  \* ctsort: the candidates, ascending by When
    parents,        \* ctsort: hash -> set of remaining parent hashes
    result,         \* ctsort: the emitted sequence
    lastEmitted,    \* ctsort: hashes appended by the last step
    refsLevels,     \* ref name -> track
    locations,      \* hash -> <<x, y>>
    i,              \* index of the placement loop
    headChildren,   \* head hash -> set of pending children
    childrenHead,   \* child hash -> set of head hashes
    caseOf,         \* hash -> the case that placed it
    run,            \* 1 on the first run over the input, 2 on the second
    prevLocations,  \* the positions the first run returned
    gapTable,       \* gap called on its own: the refsLevels argument
    gapRefs,        \* gap called on its own: the refs argument
    gapResult,      \* gap called on its own: the value returned
    flags,          \* main: the command-line flags
    out,            \* main: what the run has written, logged and returned
    repository,     \* the repository collectCommits and getRefs read
    reflog          \* ReadReflogNewHashes called on its own: file and result

vars == <<commits, heads, children, pc, sortedCommits, parents, result,
          lastEmitted, refsLevels, locations, i, headChildren, childrenHead,
          caseOf, run, prevLocations, gapTable, gapRefs, gapResult,
          flags, out, repository, reflog>>

callVars == <<gapTable, gapRefs, gapResult>>

mainVars == <<flags, out>>

envVars == <<callVars, mainVars, repository, reflog>>

inputVars == <<commits, heads, children>>

ctsortVars == <<sortedCommits, parents, result, lastEmitted>>

layoutVars == <<refsLevels, locations, i, headChildren, childrenHead, caseOf>>

\* ------------------------------------------------- collectCommits' output
\* The parent lists a commit of hash h can have: at most two parents, the
\* present ones of lower hash (hashes are numbered in a topological order;
\* the code never compares hashes), Missing for an absent object.
ParentLists(h) ==
    LET lower == 1..(h - 1) IN
    {<<>>, <<Missing>>}
        \cup {<<p>> : p \in lower}
        \cup {<<p, Missing>> : p \in lower}
        \cup {<<p, q>> : <<p, q>> \in {pq \in lower \X lower : pq[1] # pq[2]}}

\* children[parent].Add(commit.Hash) for every parent of every walked commit.
ChildrenOf(cs) ==
    LET mentioned == UNION {Range(cs[c].ParentHashes) : c \in DOMAIN cs} IN
    [p \in mentioned |-> {c \in DOMAIN cs : p \in Range(cs[c].ParentHashes)}]

\* getRefs: heads[hash] lists the refs whose tip is hash, in iteration order.
RefOrder == <<Main, Feature>>

HeadsOf(tip) ==
    LET tips == {tip[r] : r \in Refs} \ {NoCommit} IN
    [h \in tips |-> SelectSeq(RefOrder, LAMBDA r : tip[r] = h)]

\* A repository of n commits: timestamps, parent lists, the reflog labelling
\* and the tip of every ref.  A ref that does not exist (NoCommit) has no
\* reflog and labels nothing.
\* At most MaxShallow commits of a repository name a missing parent.
ParentMaps(n) ==
    {f \in [1..n -> UNION {ParentLists(h) : h \in 1..n}] :
        /\ \A h \in 1..n : f[h] \in ParentLists(h)
        /\ Cardinality({h \in 1..n : Missing \in Range(f[h])}) <= MaxShallow}

\* The commits a ref labels.
LabelledBy(labels, r) == {h \in DOMAIN labels : r \in labels[h]}

\* Ref names are opaque keys to the layout, so of two repositories that differ
\* only by exchanging the two names one is kept: main has the later tip, or
\* the same tip and the label set that wins at the highest differing hash.
MainFirst(lt) ==
    LET lm == LabelledBy(lt.Labels, Main)
        lf == LabelledBy(lt.Labels, Feature)
        diff == (lm \ lf) \cup (lf \ lm)
    IN \/ lt.Tip[Main] > lt.Tip[Feature]
       \/ /\ lt.Tip[Main] = lt.Tip[Feature]
          /\ diff # {} => SetMax(diff) \in lm

\* The reflog labelling and the tip of every ref.  A ref that does not exist
\* (NoCommit) has no reflog and labels nothing.
Labellings(n) ==
    {lt \in [Labels : [1..n -> SUBSET Refs],
             Tip : [Refs -> (1..n) \cup {NoCommit}]] :
        /\ \A r \in Refs : lt.Tip[r] = NoCommit => LabelledBy(lt.Labels, r) = {}
        /\ MainFirst(lt)}

CommitsOf(repo) ==
    [h \in DOMAIN repo.When |->
        [When |-> repo.When[h],
         ParentHashes |-> repo.Parents[h],
         References |-> repo.Labels[h]]]

\* Committer.When.Before
Before(a, b) == commits[a].When < commits[b].When

\* Larger graphs, numbered in committer-time order.  Diamond is scenario
\* 2 of the specification (A<-B, B<-C, B<-D, merge E of C and D); Cross is two
\* roots A and B with the chain A<-C<-D<-E.
Diamond == <<(<<>>), <<1>>, <<2>>, <<2>>, <<3, 4>>>>

Cross == <<(<<>>), (<<>>), <<1>>, <<3>>, <<4>>>>

\* A<-B, C the merge of B into A made without fast-forward, and D a second
\* child of A.
MergeNoFF == <<(<<>>), <<1>>, <<1, 2>>, <<1>>>>

Shapes == {Diamond, Cross, MergeNoFF}

\* Scenario 2: main labels A,B,C,E and has its head at E, feature labels A,B,D
\* and has its head at D.
MergeLabels == <<{Main, Feature}, {Main, Feature}, {Main}, {Feature}, {Main}>>

MergeTips == [r \in Refs |-> IF r = Main THEN 5 ELSE 4]

IsMergeScenario ==
    /\ DOMAIN commits = DOMAIN Diamond
    /\ \A h \in DOMAIN commits :
        /\ commits[h].ParentHashes = Diamond[h]
        /\ commits[h].References = MergeLabels[h]
        /\ \A g \in DOMAIN commits : g < h => Before(g, h)
    /\ heads = HeadsOf(MergeTips)

InitRepository(repo) ==
    /\ commits = CommitsOf(repo)
    /\ heads = HeadsOf(repo.Tip)
    /\ children = ChildrenOf(CommitsOf(repo))

\* Every repository of at most maxN commits.
InitGeneral(maxN) ==
    \E n \in 0..maxN :
        \E w \in [1..n -> 1..MaxTime], p \in ParentMaps(n), lt \in Labellings(n) :
            InitRepository([When |-> w, Parents |-> p,
                            Labels |-> lt.Labels, Tip |-> lt.Tip])

\* Every labelling of the larger graphs.
InitShapes ==
    \E p \in Shapes :
        \E lt \in Labellings(Len(p)) :
            InitRepository([When |-> [h \in DOMAIN p |-> h], Parents |-> p,
                            Labels |-> lt.Labels, Tip |-> lt.Tip])

\* Nothing written or logged yet, the process running.
NoOutput ==
    [locationsFile |-> "none", positions |-> EmptyMap, log |-> {},
     html |-> "none", svg |-> FALSE, stops |-> {}, rails |-> {}, status |-> -1]

\* The layout is run on a commit map that is given directly.
NoRepo == [Objects |-> EmptyMap]

\* -path . -locations locations.json, SVG to stdout, no HTML.
DefaultFlags == [htmlOut |-> FALSE, htmlOnly |-> FALSE, noSVG |-> FALSE]

\* Nothing sorted, placed, called or written yet.
IdleRun ==
    /\ sortedCommits = <<>>
    /\ parents = EmptyMap
    /\ result = <<>>
    /\ lastEmitted = <<>>
    /\ refsLevels = EmptyMap
    /\ locations = EmptyMap
    /\ i = 0
    /\ headChildren = EmptyMap
    /\ childrenHead = EmptyMap
    /\ caseOf = EmptyMap
    /\ run = 1
    /\ prevLocations = EmptyMap
    /\ out = NoOutput

\* ReadReflogNewHashes is not called on its own.
NoReflog == [file |-> [kind |-> "missing", lines |-> <<>>], pos |-> 0,
             out |-> <<>>, seen |-> {}, ret |-> <<>>, err |-> "none"]

\* gap and ReadReflogNewHashes are not called on their own.
IdleGap ==
    /\ gapTable = EmptyMap
    /\ gapRefs = FALSE
    /\ gapResult = 0
    /\ reflog = NoReflog

InitLayout ==
    /\ pc = "start"
    /\ IdleRun
    /\ IdleGap
    /\ repository = NoRepo

InitRun == InitLayout /\ flags = DefaultFlags

Init == (InitGeneral(MaxCommits) \/ InitShapes) /\ InitRun

InitTwice == InitGeneral(MaxCommitsTwice) /\ InitRun

\* ------------------------------------------------------------------ ctsort
\* sort.Slice over the commits in map-iteration order: the map is enumerated
\* in any order and ties keep the enumeration order, so the candidates are
\* any arrangement of all commits that is ascending by committer time.
RECURSIVE SortedOrders(_)
SortedOrders(S) ==
    IF S = {} THEN {<<>>}
    ELSE UNION {{<<h>> \o t : t \in SortedOrders(S \ {h})} :
                    h \in {e \in S : \A o \in S : ~Before(o, e)}}

RemoveAtNext(s, k) == SubSeq(s, 1, k - 1) \o SubSeq(s, k + 2, Len(s))

RemoveAt(s, k) == SubSeq(s, 1, k - 1) \o SubSeq(s, k + 1, Len(s))

FirstReadyFromBack(cands, ps) ==
    LET ready == {k \in DOMAIN cands : ps[cands[k]] = {}} IN
    IF ready = {} THEN 0 ELSE SetMax(ready)

\* Index of the first candidate with no remaining parent, 0 when none.
FirstReady(cands, ps) ==
    LET ready == {k \in DOMAIN cands : ps[cands[k]] = {}} IN
    IF ready = {} THEN 0 ELSE SetMin(ready)

CtsortBegin ==
    /\ pc = "start"
    /\ \E order \in SortedOrders(DOMAIN commits) : sortedCommits' = order
    /\ parents' = [h \in DOMAIN commits |-> Range(commits[h].ParentHashes)]
    /\ result' = <<>>
    /\ lastEmitted' = <<>>
    /\ pc' = "ctsort"
    /\ UNCHANGED <<inputVars, layoutVars, run, prevLocations, envVars>>

CtsortEmit ==
    /\ pc = "ctsort"
    /\ sortedCommits # <<>>
    /\ FirstReady(sortedCommits, parents) # 0
    /\ LET k == FirstReady(sortedCommits, parents)
           h == sortedCommits[k]
           cs == IF h \in DOMAIN children THEN children[h] ELSE {}
       IN /\ sortedCommits' = RemoveAt(sortedCommits, k)
          /\ result' = Append(result, h)
          /\ lastEmitted' = <<h>>
          /\ parents' = [c \in DOMAIN parents |->
                            IF c \in cs THEN parents[c] \ {h} ELSE parents[c]]
    /\ UNCHANGED <<inputVars, layoutVars, pc, run, prevLocations, envVars>>

CtsortFallback ==
    /\ pc = "ctsort"
    /\ sortedCommits # <<>>
    /\ FirstReady(sortedCommits, parents) = 0
    /\ result' = result \o sortedCommits
    /\ lastEmitted' = sortedCommits
    /\ sortedCommits' = <<>>
    /\ UNCHANGED <<inputVars, layoutVars, pc, parents, run, prevLocations, envVars>>

\* --------------------------------------------------------- layout helpers
\* isHeadRef: the name starts with "refs/heads/".
BranchRefs == {Main, Feature}

isHeadRef(r) == r \in BranchRefs

\* buildHeadChildren: the children of every head commit that has a branch ref.
BuildHeadChildren ==
    LET withHead == {h \in DOMAIN heads :
                        \E k \in DOMAIN heads[h] : isHeadRef(heads[h][k])}
    IN [h \in withHead |-> IF h \in DOMAIN children THEN children[h] ELSE {}]

BuildChildrenHead(hc) ==
    [c \in UNION Range(hc) |-> {head \in DOMAIN hc : c \in hc[head]}]

\* sort.Ints over a set of levels.
RECURSIVE SortInts(_)
SortInts(S) ==
    IF S = {} THEN <<>> ELSE <<SetMin(S)>> \o SortInts(S \ {SetMin(S)})

GapScanMax(levels, k) == levels[Len(levels)] + 1

RECURSIVE GapScan(_, _)
GapScan(levels, k) ==
    IF k > Len(levels) - 1 THEN levels[Len(levels)] + 1
    ELSE IF levels[k + 1] - levels[k] > 1 THEN levels[k] + 1
    ELSE GapScan(levels, k + 1)

GapIgnoringTable(rl, refs) == IF refs THEN 0 ELSE 1

gap(rl, refs) ==
    IF DOMAIN rl = {} THEN (IF refs THEN 0 ELSE 1)
    ELSE GapScan(SortInts(Range(rl)), 1)

MapPut(m, keys, v) ==
    [k \in DOMAIN m \cup keys |-> IF k \in keys THEN v ELSE m[k]]

MapDelete(m, keys) == [k \in DOMAIN m \ keys |-> m[k]]

ChildrenAt(p) == IF p \in DOMAIN children THEN children[p] ELSE {}

\* ------------------------------------------------------ placement, Case N
\* The placed parents of h in ParentHashes order, then sort.Slice by x (an
\* insertion sort below 12 elements, so equal x keep their order): the lowest
\* parent is the first one in ParentHashes order among those of smallest x.
PlacedParents(h, locs) ==
    SelectSeq(commits[h].ParentHashes, LAMBDA p : p \in DOMAIN locs)

LowestParent(h, locs) ==
    LET pp == PlacedParents(h, locs)
        xs == {locs[pp[k]][1] : k \in DOMAIN pp}
    IN pp[SetMin({k \in DOMAIN pp : locs[pp[k]][1] = SetMin(xs)})]

\* children[p] restricted to sortedCommits[i+2:].
FutureChildren(p, idx) ==
    ChildrenAt(p) \cap {result[k] : k \in (idx + 3)..Len(result)}

CaseNWith(p, idx, rl, locs) ==
    IF FutureChildren(p, idx) # {} THEN gap(rl, FALSE) ELSE locs[p][1]

CaseN(h, idx, rl, locs) ==
    IF PlacedParents(h, locs) # <<>>
    THEN CaseNWith(LowestParent(h, locs), idx, rl, locs)
    ELSE gap(rl, FALSE)

\* ------------------------------------------------------ placement, Case T
CurrentRefs(h, rl) == commits[h].References \cap DOMAIN rl

ParentTracked(p, rl) == commits[p].References \cap DOMAIN rl

\* levelRefs: level -> the refs tracked at that level.
LevelRefs(rl) == [lvl \in Range(rl) |-> {r \in DOMAIN rl : rl[r] = lvl}]

Diverged(h, p, rl) ==
    \E lvl \in DOMAIN LevelRefs(rl) :
        LET curAtLevel == LevelRefs(rl)[lvl] \cap CurrentRefs(h, rl) IN
        /\ curAtLevel \subseteq ParentTracked(p, rl)
        /\ ~(ParentTracked(p, rl) \subseteq curAtLevel)

ReuseTracked(h, rl) ==
    \E lvl \in DOMAIN LevelRefs(rl) :
        LET curAtLevel == LevelRefs(rl)[lvl] \cap CurrentRefs(h, rl) IN
        /\ curAtLevel \subseteq CurrentRefs(h, rl)
        /\ CurrentRefs(h, rl) \subseteq curAtLevel

DivergeXUnpromoted(h, p, rl, locs) == SetMin({rl[r] : r \in CurrentRefs(h, rl)})

DivergeX(h, p, rl, locs) ==
    LET cur == CurrentRefs(h, rl)
        minX == IF cur = {} THEN gap(rl, TRUE) ELSE SetMin({rl[r] : r \in cur})
    IN IF /\ p \in DOMAIN locs
          /\ minX = locs[p][1]
          /\ Cardinality(ChildrenAt(p)) # 1
       THEN gap(rl, TRUE)
       ELSE minX

XForParentByRefs(h, p, rl, locs) == {rl[r] : r \in CurrentRefs(h, rl)}

\* The values xForParent can take before the final clamp: the level of "any
\* one current ref" is whichever ref the set iteration yields first.
XForParentRaw(h, p, rl, locs) ==
    IF ParentTracked(p, rl) \subseteq CurrentRefs(h, rl)
    THEN {IF p \in DOMAIN locs THEN locs[p][1] ELSE -1}
    ELSE IF Diverged(h, p, rl)
    THEN {DivergeX(h, p, rl, locs)}
    ELSE IF ParentTracked(p, rl) = {}
    THEN {IF p \in DOMAIN locs THEN locs[p][1] ELSE -1}
    ELSE IF ReuseTracked(h, rl)
    THEN {rl[r] : r \in CurrentRefs(h, rl)}
    ELSE {gap(rl, TRUE)}

XForParent(h, p, rl, locs) ==
    {IF v < 0 THEN gap(rl, TRUE) ELSE v : v \in XForParentRaw(h, p, rl, locs)}

\* The parents of h that are keys of the commit map.
KnownParents(h) == Range(commits[h].ParentHashes) \cap DOMAIN commits

\* px: every way the per-parent candidates can come out.
PxMaps(h, rl, locs) ==
    {px \in [KnownParents(h) -> UNION {XForParent(h, p, rl, locs) : p \in KnownParents(h)}] :
        \A p \in KnownParents(h) : px[p] \in XForParent(h, p, rl, locs)}

MaxPx(px, rl) ==
    LET ok == {v \in Range(px) : v >= 0} IN
    IF ok # {} THEN SetMax(ok) ELSE gap(rl, TRUE)

MinPx(px, rl) ==
    LET ok == {v \in Range(px) : v >= 0} IN
    IF ok # {} THEN SetMin(ok) ELSE gap(rl, TRUE)

CaseTFresh(h, rl, locs) == {gap(rl, TRUE)}

CaseT(h, rl, locs) ==
    IF KnownParents(h) # {}
    THEN {MinPx(px, rl) : px \in PxMaps(h, rl, locs)}
    ELSE {gap(rl, TRUE)}

\* ------------------------------------------------------------ the choice
CaseOf(h, rl) ==
    IF commits[h].References = {} THEN "N"
    ELSE IF commits[h].References \cap DOMAIN rl = {} THEN "S"
    ELSE "T"

Clamp(x) == IF x < 0 THEN 0 ELSE x

\* The tracks the placement of h (index idx of the loop) can choose.
ChooseX(h, idx, rl, locs) ==
    {Clamp(x) : x \in
        IF CaseOf(h, rl) = "N" THEN {CaseN(h, idx, rl, locs)}
        ELSE IF CaseOf(h, rl) = "S" THEN {gap(rl, TRUE)}
        ELSE CaseT(h, rl, locs)}

UntrackLabels(rl, seenHeads) ==
    MapDelete(rl, UNION {commits[head].References : head \in seenHeads})

\* Untrack seen heads: delete the refs of heads[head] from refsLevels.
Untrack(rl, seenHeads) ==
    MapDelete(rl, UNION {Range(heads[head]) : head \in seenHeads})

SeenHeadsAfter(h) == IF h \in DOMAIN heads THEN {h} ELSE {}

HeadChildrenAfter(hc, ch, h) ==
    IF h \notin DOMAIN heads /\ h \in DOMAIN ch
    THEN [head \in DOMAIN hc |-> IF head \in ch[h] THEN hc[head] \ {h} ELSE hc[head]]
    ELSE hc

\* ------------------------------------------------------ arrangeCommits
FirstXSentinel == -1

\* The track of the initial commit and of its refs.
FirstX == 0

NextYSkipping(locs) == Cardinality(DOMAIN locs) + 1

\* len(locations), the y of the commit being placed.
NextY(locs) == Cardinality(DOMAIN locs)

ReturnEmpty ==
    /\ pc = "ctsort"
    /\ sortedCommits = <<>>
    /\ result = <<>>
    /\ pc' = "done"
    /\ UNCHANGED <<inputVars, ctsortVars, layoutVars, run, prevLocations, envVars>>

PlaceFirst ==
    /\ pc = "ctsort"
    /\ sortedCommits = <<>>
    /\ result # <<>>
    /\ LET h0 == result[1] IN
        /\ headChildren' = BuildHeadChildren
        /\ childrenHead' = BuildChildrenHead(BuildHeadChildren)
        /\ refsLevels' = [r \in commits[h0].References |-> FirstX]
        /\ locations' = [h \in {h0} |-> <<FirstX, 0>>]
    /\ i' = 0
    /\ caseOf' = [h \in {result[1]} |-> "first"]
    /\ pc' = IF Len(result) = 1 THEN "done" ELSE "place"
    /\ UNCHANGED <<inputVars, ctsortVars, run, prevLocations, envVars>>

PlaceNext ==
    /\ pc = "place"
    /\ i < Len(result) - 1
    /\ LET h == result[i + 2] IN
        /\ \E x \in ChooseX(h, i, refsLevels, locations) :
            /\ locations' = MapPut(locations, {h}, <<x, NextY(locations)>>)
            /\ refsLevels' = Untrack(MapPut(refsLevels, commits[h].References, x),
                                     SeenHeadsAfter(h))
        /\ headChildren' = HeadChildrenAfter(headChildren, childrenHead, h)
        /\ caseOf' = MapPut(caseOf, {h}, CaseOf(h, refsLevels))
    /\ i' = i + 1
    /\ pc' = IF i + 1 < Len(result) - 1 THEN "place" ELSE "done"
    /\ UNCHANGED <<inputVars, ctsortVars, childrenHead, run, prevLocations, envVars>>

\* A second run of the program over the same repository.
Rerun ==
    /\ pc = "done"
    /\ run = 1
    /\ run' = 2
    /\ prevLocations' = locations
    /\ pc' = "start"
    /\ sortedCommits' = <<>>
    /\ parents' = EmptyMap
    /\ result' = <<>>
    /\ lastEmitted' = <<>>
    /\ refsLevels' = EmptyMap
    /\ locations' = EmptyMap
    /\ i' = 0
    /\ headChildren' = EmptyMap
    /\ childrenHead' = EmptyMap
    /\ caseOf' = EmptyMap
    /\ UNCHANGED <<inputVars, envVars>>

Next ==
    \/ CtsortBegin
    \/ CtsortEmit
    \/ CtsortFallback
    \/ ReturnEmpty
    \/ PlaceFirst
    \/ PlaceNext

Spec == Init /\ [][Next]_vars

NextTwice == Next \/ Rerun

SpecTwice == InitTwice /\ [][NextTwice]_vars

\* --------------------------------------------- the layout on full histories
\* Histories in committer-time order in which only the oldest commit may name
\* an absent parent (the boundary of a shallow clone), and in which the reflog
\* of every ref names the tip of the ref.
RootShallowLists(h) ==
    IF h = 1 THEN {<<>>, <<Missing>>}
    ELSE {l \in ParentLists(h) : Missing \notin Range(l)}

RootShallowMaps(n) ==
    {f \in [1..n -> UNION {RootShallowLists(h) : h \in 1..n}] :
        \A h \in 1..n : f[h] \in RootShallowLists(h)}

TipLabelled(lt) ==
    \A r \in Refs : lt.Tip[r] = NoCommit \/ r \in lt.Labels[lt.Tip[r]]

InitPlace ==
    /\ \E n \in 0..MaxPlaceCommits :
           \E p \in RootShallowMaps(n),
              lt \in {l \in Labellings(n) : TipLabelled(l)} :
               InitRepository([When |-> [h \in 1..n |-> h], Parents |-> p,
                               Labels |-> lt.Labels, Tip |-> lt.Tip])
    /\ InitRun

SpecPlace == InitPlace /\ [][Next]_vars

\* ------------------------------------------- collectCommits and getRefs
\* The refs of a repository: a local branch, and three remote refs.  A name
\* is the list of its path components.
RemoteMain == "refs/remotes/origin/main"

RemoteFeature == "refs/remotes/origin/feature"

RemoteHead == "refs/remotes/origin/HEAD"

RepoRefs == {Main, RemoteMain, RemoteFeature, RemoteHead}

RefParts ==
    [r \in RepoRefs \cup {Feature} |->
        CASE r = Main -> <<"refs", "heads", "main">>
          [] r = Feature -> <<"refs", "heads", "feature">>
          [] r = RemoteMain -> <<"refs", "remotes", "origin", "main">>
          [] r = RemoteFeature -> <<"refs", "remotes", "origin", "feature">>
          [] r = RemoteHead -> <<"refs", "remotes", "origin", "HEAD">>]

HasPrefix(parts, prefix) ==
    Len(parts) > Len(prefix) /\ SubSeq(parts, 1, Len(prefix)) = prefix

\* plumbing.ReferenceName.IsBranch, IsRemote; strings.HasSuffix(name, "/HEAD").
IsBranch(r) == HasPrefix(RefParts[r], <<"refs", "heads">>)

IsRemote(r) == HasPrefix(RefParts[r], <<"refs", "remotes">>)

IsRemoteHEAD(r) == Len(RefParts[r]) > 1 /\ RefParts[r][Len(RefParts[r])] = "HEAD"

\* The lines of .git/config that TrackedRemoteRefs tells apart: a section
\* header (branch is the quoted name of a branch section, "" for any other
\* section) and a key = value line whose value is a list of path components.
SectionLine(b) == [kind |-> "section", branch |-> b, key |-> "", val |-> <<>>]

KeyLine(k, v) == [kind |-> "key", branch |-> "", key |-> k, val |-> v]

ConfigLines ==
    {SectionLine("main"), SectionLine(""),
     KeyLine("remote", <<"origin">>),
     KeyLine("merge", <<"refs", "heads", "main">>),
     KeyLine("merge", <<"main">>),
     KeyLine("merge", <<"refs", "heads", "feature">>)}

NoBranchCfg == [remote |-> <<>>, merge |-> <<>>]

\* The loop over the lines: curBranch and the branches map.
RECURSIVE ParseConfig(_, _, _)
ParseConfig(lines, curBranch, branches) ==
    IF lines = <<>> THEN branches
    ELSE LET line == Head(lines) IN
         IF line.kind = "section"
         THEN ParseConfig(Tail(lines), line.branch,
                          IF line.branch # "" /\ line.branch \notin DOMAIN branches
                          THEN MapPut(branches, {line.branch}, NoBranchCfg)
                          ELSE branches)
         ELSE IF curBranch = "" THEN ParseConfig(Tail(lines), curBranch, branches)
         ELSE ParseConfig(Tail(lines), curBranch,
                [branches EXCEPT ![curBranch] =
                    IF line.key = "remote" THEN [@ EXCEPT !.remote = line.val]
                    ELSE IF line.key = "merge" THEN [@ EXCEPT !.merge = line.val]
                    ELSE @])

\* strings.TrimPrefix(merge, "refs/heads/")
TrimHeadsPrefix(merge) ==
    IF HasPrefix(merge, <<"refs", "heads">>) THEN SubSeq(merge, 3, Len(merge))
    ELSE merge

\* The names refs/remotes/<remote>/<merge> of the branch sections that have
\* both keys.
TrackedRemoteRefs(lines) ==
    LET branches == ParseConfig(lines, "", EmptyMap) IN
    {<<"refs", "remotes">> \o branches[b].remote \o TrimHeadsPrefix(branches[b].merge) :
        b \in {c \in DOMAIN branches : /\ branches[c].remote # <<>>
                                        /\ branches[c].merge # <<>>}}

\* The commits reachable by parent links from the hashes of frontier, among
\* the objects the repository holds (repo.CommitObject fails for the others).
RECURSIVE Walk(_, _, _)
Walk(objects, toProcess, seen) ==
    LET new == (toProcess \cap DOMAIN objects) \ seen IN
    IF new = {} THEN seen
    ELSE Walk(objects, UNION {Range(objects[h].ParentHashes) : h \in new},
              seen \cup new)

\* The first References().ForEach: the tips the walk starts from.
StartTips(r) ==
    {r.Tips[name] : name \in {x \in DOMAIN r.Tips :
                                IsBranch(x) \/ (r.All /\ IsRemote(x))}}

\* The second References().ForEach: the refs whose reflog labels commits.
LabelsByReflog(r, name) ==
    \/ IsBranch(name)
    \/ /\ r.All
       /\ IsRemote(name)
       /\ ~IsRemoteHEAD(name)
       /\ RefParts[name] \notin TrackedRemoteRefs(r.Config)

CollectCommits ==
    /\ pc = "collect"
    /\ LET walked == Walk(repository.Objects, StartTips(repository), {})
           cs == [h \in walked |->
                    [When |-> repository.Objects[h].When,
                     ParentHashes |-> repository.Objects[h].ParentHashes,
                     References |-> {name \in DOMAIN repository.Tips :
                                        /\ LabelsByReflog(repository, name)
                                        /\ h \in repository.Reflogs[name]}]]
       IN /\ commits' = cs
          /\ children' = ChildrenOf(cs)
    /\ pc' = "getRefs"
    /\ UNCHANGED <<heads, ctsortVars, layoutVars, run, prevLocations, envVars>>

\* getRefs: heads[hash] lists the branches, and with --all the remote refs,
\* whose tip is hash, in the order of the reference iterator.
RefIterOrder == <<Main, RemoteHead, RemoteFeature, RemoteMain>>

GetRefs ==
    /\ pc = "getRefs"
    /\ LET listed == {name \in DOMAIN repository.Tips :
                        IsBranch(name) \/ (repository.All /\ IsRemote(name))}
       IN heads' = [h \in {repository.Tips[name] : name \in listed} |->
                        SelectSeq(RefIterOrder,
                                  LAMBDA name : name \in listed /\ repository.Tips[name] = h)]
    /\ pc' = "start"
    /\ UNCHANGED <<commits, children, ctsortVars, layoutVars, run, prevLocations,
                   envVars>>

\* The commit objects of a repository: hashes 1..n in a topological order,
\* committed in that order.
ObjectsOf(p) ==
    [h \in DOMAIN p |-> [When |-> h, ParentHashes |-> p[h]]]

\* Any refs on n objects: a ref that exists has a tip and a reflog, which is
\* any set of the objects (empty when the file is missing).
RefStates(n) ==
    UNION {{[Tips |-> t, Reflogs |-> l] : t \in [S -> 1..n], l \in [S -> SUBSET (1..n)]} :
                S \in SUBSET RepoRefs}

\* The config git writes for a main that tracks origin/main.
TrackingConfig ==
    <<SectionLine("main"), KeyLine("remote", <<"origin">>),
      KeyLine("merge", <<"refs", "heads", "main">>)>>

\* Every config of at most MaxConfigLines lines.
Configs == UNION {[1..k -> ConfigLines] : k \in 0..MaxConfigLines}

\* One commit, the tip and the whole reflog of every ref.
OneCommitRefs ==
    [Tips |-> [name \in RepoRefs |-> 1], Reflogs |-> [name \in RepoRefs |-> {1}]]

InitCollectRun ==
    /\ commits = EmptyMap
    /\ heads = EmptyMap
    /\ children = EmptyMap
    /\ IdleRun
    /\ IdleGap
    /\ pc = "collect"
    /\ flags = DefaultFlags

\* Every repository of at most MaxObjects objects with no config or the
\* tracking config, and the one-commit repository with every config.
InitCollect ==
    /\ \/ \E n \in 1..MaxObjects :
            \E p \in ParentMaps(n), rs \in RefStates(n), all \in BOOLEAN,
               cfg \in {<<>>, TrackingConfig} :
                repository = [Objects |-> ObjectsOf(p), Tips |-> rs.Tips,
                              Reflogs |-> rs.Reflogs, Config |-> cfg, All |-> all]
       \/ \E cfg \in Configs, all \in BOOLEAN :
                repository = [Objects |-> ObjectsOf(<<(<<>>)>>), Tips |-> OneCommitRefs.Tips,
                              Reflogs |-> OneCommitRefs.Reflogs, Config |-> cfg,
                              All |-> all]
    /\ InitCollectRun

NextCollect ==
    \/ CollectCommits
    \/ GetRefs
    \/ Next

SpecCollect == InitCollect /\ [][NextCollect]_vars

\* -------------------------------------------------------------- main
\* The flags -html (a target is given), -html-only and -no-svg.
Flags == [htmlOut : BOOLEAN, htmlOnly : BOOLEAN, noSVG : BOOLEAN]

\* log.Fatalf: os.Exit(1).
FatalStatus == 1

\* DrawRailway: one stop per commit that has a position, one rail per parent
\* hash of such a commit.
DrawnStopsOrPlaceholder(cs, pos) ==
    IF DOMAIN cs \cap DOMAIN pos = {} THEN {Missing} ELSE DOMAIN cs \cap DOMAIN pos

DrawnStops(cs, pos) == DOMAIN cs \cap DOMAIN pos

DrawnRails(cs, pos) ==
    UNION {{<<h, p>> : p \in Range(cs[h].ParentHashes)} :
                h \in DOMAIN cs \cap DOMAIN pos}

\* Where the run goes after a failed creation or write of the HTML target.
AfterHtmlFailureGoOn == "html"

AfterHtmlFailure == "exit"

\* saveLocationsToFile: on an error the message is logged and the run goes on.
SaveLocations ==
    /\ pc = "done"
    /\ \E ok \in BOOLEAN :
        out' = IF ok
               THEN [out EXCEPT !.locationsFile = "written", !.positions = locations]
               ELSE [out EXCEPT !.locationsFile = "failed",
                                !.log = @ \cup {"Could not save locations"}]
    /\ pc' = "saved"
    /\ UNCHANGED <<inputVars, ctsortVars, layoutVars, run, prevLocations,
                   callVars, flags, repository, reflog>>

\* -html given: the SVG is drawn into a buffer, the file is created and
\* written; a failure of either is fatal.
GenerateHTML ==
    /\ pc = "saved"
    /\ flags.htmlOut
    /\ \E outcome \in {"written", "create failed", "write failed"} :
        IF outcome = "written"
        THEN /\ out' = [out EXCEPT !.html = outcome,
                                   !.stops = @ \cup DrawnStops(commits, locations),
                                   !.rails = @ \cup DrawnRails(commits, locations)]
             /\ pc' = "html"
        ELSE /\ out' = [out EXCEPT !.html = outcome,
                                   !.log = @ \cup {"Failed to " \o outcome},
                                   !.status = IF AfterHtmlFailure = "exit"
                                              THEN FatalStatus ELSE @]
             /\ pc' = AfterHtmlFailure
    /\ UNCHANGED <<inputVars, ctsortVars, layoutVars, run, prevLocations,
                   callVars, flags, repository, reflog>>

SkipHTML ==
    /\ pc = "saved"
    /\ ~flags.htmlOut
    /\ pc' = "html"
    /\ UNCHANGED <<inputVars, ctsortVars, layoutVars, run, prevLocations, envVars>>

\* The SVG goes to stdout unless -no-svg, or -html together with -html-only.
WritesSVG == ~flags.noSVG /\ (~flags.htmlOut \/ ~flags.htmlOnly)

DrawSVG ==
    /\ pc = "html"
    /\ WritesSVG
    /\ out' = [out EXCEPT !.svg = TRUE,
                          !.stops = @ \cup DrawnStops(commits, locations),
                          !.rails = @ \cup DrawnRails(commits, locations),
                          !.status = IF @ = -1 THEN 0 ELSE @]
    /\ pc' = "exit"
    /\ UNCHANGED <<inputVars, ctsortVars, layoutVars, run, prevLocations,
                   callVars, flags, repository, reflog>>

SkipSVG ==
    /\ pc = "html"
    /\ ~WritesSVG
    /\ out' = [out EXCEPT !.status = IF @ = -1 THEN 0 ELSE @]
    /\ pc' = "exit"
    /\ UNCHANGED <<inputVars, ctsortVars, layoutVars, run, prevLocations,
                   callVars, flags, repository, reflog>>

\* Histories with distinct commit times, under every flag combination.
InitMain ==
    /\ \E n \in 0..MaxMainCommits :
           \E p \in ParentMaps(n), lt \in Labellings(n) :
               InitRepository([When |-> [h \in 1..n |-> h], Parents |-> p,
                               Labels |-> lt.Labels, Tip |-> lt.Tip])
    /\ InitLayout
    /\ flags \in Flags

NextMain ==
    \/ Next
    \/ SaveLocations
    \/ GenerateHTML
    \/ SkipHTML
    \/ DrawSVG
    \/ SkipSVG

SpecMain == InitMain /\ [][NextMain]_vars

\* ------------------------------------------------ ctsort on any input
\* ctsort takes any commit map: a parent hash may be absent from the map, and
\* the parent links may form a cycle (a parent list names any hash, the
\* commit's own included).  No ref labels a commit and no ref has a tip.
AnyParentLists(n) ==
    {<<>>} \cup {<<p>> : p \in 0..n}
           \cup {<<p, q>> : <<p, q>> \in {pq \in (0..n) \X (0..n) : pq[1] # pq[2]}}

InitSort ==
    /\ \E n \in 0..MaxSortCommits :
        \E w \in [1..n -> 1..MaxTime], p \in [1..n -> AnyParentLists(n)] :
            InitRepository([When |-> w, Parents |-> p,
                            Labels |-> [h \in 1..n |-> {}],
                            Tip |-> [r \in Refs |-> NoCommit]])
    /\ InitRun

\* ctsort returns when no candidate is left.
NextSort ==
    \/ CtsortBegin
    \/ CtsortEmit
    \/ CtsortFallback

SpecSort == InitSort /\ [][NextSort]_vars /\ WF_vars(NextSort)

\* ------------------------------------------------------- gap on its own
\* The helper called on any track table: up to three refs on levels
\* 0..MaxLevel, with either value of the refs flag.
GapKeys == {Main, Feature, "refs/remotes/origin/feature"}

TrackTables == UNION {[S -> 0..MaxLevel] : S \in SUBSET GapKeys}

InitIdle ==
    /\ commits = EmptyMap
    /\ heads = EmptyMap
    /\ children = EmptyMap
    /\ IdleRun
    /\ flags = DefaultFlags
    /\ repository = NoRepo

InitGap ==
    /\ InitIdle
    /\ pc = "gap"
    /\ gapTable \in TrackTables
    /\ gapRefs \in BOOLEAN
    /\ gapResult = 0
    /\ reflog = NoReflog

GapCall ==
    /\ pc = "gap"
    /\ gapResult' = gap(gapTable, gapRefs)
    /\ pc' = "gapdone"
    /\ UNCHANGED <<inputVars, ctsortVars, layoutVars, run, prevLocations,
                   gapTable, gapRefs, mainVars, repository, reflog>>

NextGap == GapCall

SpecGap == InitGap /\ [][NextGap]_vars

\* ------------------------------------------- ReadReflogNewHashes on its own
\* A reflog file is missing, unreadable or a sequence of lines.  A line is a
\* sequence of items, each a run of spaces or a word, and is long when it
\* exceeds the buffer of bufio.Scanner.  Characters: the hexadecimal digits
\* 0, a, b, the letter g and the space.
HexLen == 40

HashSize == HexLen \div 2

Rep(c, n) == [k \in 1..n |-> c]

IsHexChar(c) == c \in {"0", "a", "b"}

HexValue(c) == CASE c = "0" -> 0 [] c = "a" -> 10 [] c = "b" -> 11

\* hex.DecodeString: the bytes of the pairs before the first pair that holds
\* a character which is no hexadecimal digit.
RECURSIVE DecodeHex(_, _)
DecodeHex(s, j) ==
    IF 2 * j > Len(s) THEN <<>>
    ELSE IF ~IsHexChar(s[2 * j - 1]) \/ ~IsHexChar(s[2 * j]) THEN <<>>
    ELSE <<HexValue(s[2 * j - 1]) * 16 + HexValue(s[2 * j])>> \o DecodeHex(s, j + 1)

\* plumbing.NewHash: the decoded bytes copied into a zeroed hash.
NewHash(s) ==
    LET b == DecodeHex(s, 1) IN
    [k \in 1..HashSize |-> IF k <= Len(b) THEN b[k] ELSE 0]

IsZero(h) == \A k \in DOMAIN h : h[k] = 0

IsSpace(item) == \A k \in DOMAIN item : item[k] = " "

\* strings.Fields of the trimmed line.
Fields(line) == SelectSeq(line.items, LAMBDA item : ~IsSpace(item))

Sp == <<" ">>

Author == <<"g">>

HashA == Rep("a", HexLen)

HashB == Rep("b", HexLen)

ZeroHex == Rep("0", HexLen)

ShortHex == Rep("a", HexLen - 1)

\* Forty characters, the last two of them no hexadecimal digits.
BadTail == Rep("a", HexLen - 2) \o <<"g", "g">>

\* <old> <new> <author> ...
Entry(old, new) == <<old, Sp, new, Sp, Author>>

ReflogLines ==
    {[items |-> it, long |-> FALSE] :
        it \in {<<>>, <<Sp>>, <<HashA>>, <<Sp, HashB, Sp, HashA>>,
                Entry(HashA, HashB)}
               \cup {Entry(ZeroHex, n) :
                        n \in {HashA, HashB, ZeroHex, ShortHex, BadTail}}}
        \cup {[items |-> Entry(HashA, ShortHex), long |-> TRUE]}

ReflogFiles ==
    {[kind |-> "missing", lines |-> <<>>], [kind |-> "unreadable", lines |-> <<>>]}
        \cup {[kind |-> "file", lines |-> ls] :
                ls \in UNION {[1..n -> ReflogLines] : n \in 0..MaxReflogLines}}

InitReflog ==
    /\ InitIdle
    /\ pc = "reflog"
    /\ gapTable = EmptyMap
    /\ gapRefs = FALSE
    /\ gapResult = 0
    /\ \E f \in ReflogFiles : reflog = [NoReflog EXCEPT !.file = f]

\* os.Open: a missing file returns (nil, nil), another failure an error.
ReflogOpen ==
    /\ pc = "reflog"
    /\ \/ /\ reflog.file.kind = "file"
          /\ pc' = "scan"
          /\ UNCHANGED reflog
       \/ /\ reflog.file.kind = "missing"
          /\ pc' = "reflogdone"
          /\ UNCHANGED reflog
       \/ /\ reflog.file.kind = "unreadable"
          /\ pc' = "reflogdone"
          /\ reflog' = [reflog EXCEPT !.err = "open"]
    /\ UNCHANGED <<inputVars, ctsortVars, layoutVars, run, prevLocations,
                   callVars, mainVars, repository>>

\* The hashes collected after one more line.
AfterLine(r, line) ==
    LET fields == Fields(line)
        h == NewHash(fields[2])
    IN IF Len(fields) < 2 THEN r
       ELSE IF Len(fields[2]) # HexLen THEN r
       ELSE IF IsZero(h) THEN r
       ELSE IF h \in r.seen THEN r
       ELSE [r EXCEPT !.seen = @ \cup {h}, !.out = Append(@, h)]

\* sc.Scan() yields the next line.
ReflogScanLine ==
    /\ pc = "scan"
    /\ reflog.pos < Len(reflog.file.lines)
    /\ ~reflog.file.lines[reflog.pos + 1].long
    /\ reflog' = [AfterLine(reflog, reflog.file.lines[reflog.pos + 1])
                    EXCEPT !.pos = @ + 1]
    /\ UNCHANGED <<inputVars, ctsortVars, layoutVars, pc, run, prevLocations,
                   callVars, mainVars, repository>>

\* sc.Scan() stops at a line that exceeds its buffer: sc.Err() is not nil.
ReflogScanError ==
    /\ pc = "scan"
    /\ reflog.pos < Len(reflog.file.lines)
    /\ reflog.file.lines[reflog.pos + 1].long
    /\ reflog' = [reflog EXCEPT !.ret = <<>>, !.err = "scan"]
    /\ pc' = "reflogdone"
    /\ UNCHANGED <<inputVars, ctsortVars, layoutVars, run, prevLocations,
                   callVars, mainVars, repository>>

\* End of file: return out, nil.
ReflogReturn ==
    /\ pc = "scan"
    /\ reflog.pos = Len(reflog.file.lines)
    /\ reflog' = [reflog EXCEPT !.ret = reflog.out]
    /\ pc' = "reflogdone"
    /\ UNCHANGED <<inputVars, ctsortVars, layoutVars, run, prevLocations,
                   callVars, mainVars, repository>>

NextReflog ==
    \/ ReflogOpen
    \/ ReflogScanLine
    \/ ReflogScanError
    \/ ReflogReturn

SpecReflog == InitReflog /\ [][NextReflog]_vars

\* ================================================================ claims
X(h) == locations[h][1]

Y(h) == locations[h][2]

Placed == DOMAIN locations

RefsOf(h) == commits[h].References

ParentsOf(h) == Range(commits[h].ParentHashes)

\* The commit placed last.
LastPlaced == result[Cardinality(Placed)]

\* C1: no commit is emitted before any of its placed parents: y(c) > y(p) for
\* every placed commit c and every placed parent p of c.
C1_TopologicalOrder ==
    \A c \in Placed : \A p \in ParentsOf(c) \cap Placed : Y(c) > Y(p)

\* C2: the y values of the placed commits are exactly 0..N-1: the k-th commit
\* of the sorted sequence has y = k, and at the end every commit is placed.
C2_DenseY ==
    /\ {Y(h) : h \in Placed} = 0..(Cardinality(Placed) - 1)
    /\ \A k \in 1..Cardinality(Placed) : result[k] \in Placed /\ Y(result[k]) = k - 1
    /\ pc = "done" => Placed = DOMAIN commits

C2_Witness ==
    /\ pc = "done"
    /\ Cardinality(Placed) = 3
    /\ \E h \in Placed : caseOf[h] = "T" /\ Y(h) = 2

\* C3: every placed commit has x >= 0, whichever case chose its track, and
\* every level of the track table is >= 0.
C3_NonNegativeX ==
    /\ \A h \in Placed : X(h) >= 0
    /\ \A r \in DOMAIN refsLevels : refsLevels[r] >= 0

C3_Witness ==
    /\ pc = "done"
    /\ \E a, b \in Placed : caseOf[a] = "N" /\ caseOf[b] = "T" /\ X(b) > 0
    /\ \E r \in DOMAIN refsLevels : refsLevels[r] > 0

\* C4: two runs over the same input return identical positions.
C4_Deterministic ==
    (run = 2 /\ pc = "done") => locations = prevLocations

\* C5: a commit c with exactly one parent p, sharing a ref with p and labelled
\* by every ref of p, is placed on the track of p, whatever was emitted between
\* p and c and whether or not p is the head tip of one of the refs.
C5_RefContinuity ==
    \A c \in Placed :
        \A p \in Placed :
            (/\ commits[c].ParentHashes = <<p>>
             /\ Y(p) < Y(c)
             /\ RefsOf(c) \cap RefsOf(p) # {}
             /\ RefsOf(p) \subseteq RefsOf(c))
            => X(c) = X(p)

\* C6: immediately after the emission of a head-tip commit none of the refs
\* the heads map lists for it is in the track table.
C6_TrackReclaim ==
    (Placed # {} /\ LastPlaced \in DOMAIN heads)
        => Range(heads[LastPlaced]) \cap DOMAIN refsLevels = {}

\* C7: every step of the sort emits a commit of minimal committer time among
\* the ready candidates: no ready candidate is strictly earlier than an
\* emitted commit, and while a ready candidate exists the emitted one is ready.
C7_EarliestReadyFirst ==
    [][result' # result =>
        \A k \in DOMAIN lastEmitted' :
            LET e == lastEmitted'[k]
                ready == {c \in Range(sortedCommits) : parents[c] = {}}
            IN /\ \A c \in ready : ~Before(c, e)
               /\ ready # {} => e \in ready]_vars

C7_Witness ==
    /\ pc = "ctsort"
    /\ Len(lastEmitted) = 1
    /\ parents[lastEmitted[1]] = {}
    /\ \E c \in Range(sortedCommits) : Before(c, lastEmitted[1])
    /\ \E c \in Range(sortedCommits) :
            parents[c] = {} /\ commits[c].When = commits[lastEmitted[1]].When

\* C8: a commit is ready as soon as all of its parents that are in the commit
\* set have been emitted, and no commit is emitted through the fallback tail
\* (a commit emitted by the scan has no remaining parent).
C8_MissingParentNotBlocking ==
    \A c \in DOMAIN parents :
        /\ (ParentsOf(c) \cap DOMAIN commits) \subseteq Range(result) => parents[c] = {}
        /\ c \in Range(result) => parents[c] = {}

\* C9: two distinct refs of the track table share a level only if one single
\* placed commit labelled by both of them was placed on that level.
C9_SharedLevelCoPlaced ==
    \A r1, r2 \in DOMAIN refsLevels :
        (r1 # r2 /\ refsLevels[r1] = refsLevels[r2])
            => \E c \in Placed : /\ {r1, r2} \subseteq RefsOf(c)
                                 /\ X(c) = refsLevels[r1]

\* C10: scenario 2 yields A(0,0), B(0,1), C(0,2), D(x>=1,3), E(0,4).
C10_MergeScenario ==
    (IsMergeScenario /\ pc = "done") =>
        /\ locations[1] = <<0, 0>>
        /\ locations[2] = <<0, 1>>
        /\ locations[3] = <<0, 2>>
        /\ X(4) >= 1 /\ Y(4) = 3
        /\ locations[5] = <<0, 4>>

\* C11: a placed parent p whose two children c1 and c2 are labelled by two
\* different branches never has both children on its own track x(p).
C11_DivergingChildren ==
    \A p \in Placed : \A c1, c2 \in Placed :
        (/\ c1 # c2
         /\ ChildrenAt(p) = {c1, c2}
         /\ commits[c1].ParentHashes = <<p>>
         /\ commits[c2].ParentHashes = <<p>>
         /\ Y(p) < Y(c1) /\ Y(p) < Y(c2)
         /\ RefsOf(c1) = {Main} /\ RefsOf(c2) = {Feature})
        => ~(X(c1) = X(p) /\ X(c2) = X(p))

\* The root of the tree of h, when every commit has at most one parent.
RECURSIVE RootOf(_)
RootOf(h) ==
    IF commits[h].ParentHashes = <<>> THEN h
    ELSE RootOf(commits[h].ParentHashes[1])

\* Two unrelated trees of roots r1 and r2: the tree of r1 is labelled by branch
\* a only and holds a's tip, the tree of r2 by branch b only and holds b's tip.
DisjointRoots(r1, r2, a, b) ==
    /\ r1 # r2 /\ a # b
    /\ commits[r1].ParentHashes = <<>>
    /\ commits[r2].ParentHashes = <<>>
    /\ \A h \in DOMAIN commits :
        /\ Len(commits[h].ParentHashes) <= 1
        /\ Missing \notin ParentsOf(h)
    /\ \A h \in DOMAIN commits :
        /\ RootOf(h) \in {r1, r2}
        /\ RefsOf(h) = IF RootOf(h) = r1 THEN {a} ELSE {b}
    /\ \A h \in DOMAIN heads :
        /\ a \in Range(heads[h]) => RootOf(h) = r1
        /\ b \in Range(heads[h]) => RootOf(h) = r2
    /\ Before(r1, r2)

\* C12: of two unrelated trees labelled by their own branches the earlier root
\* is placed at (0,0) and the later root on a track x >= 1.
C12_DisjointRoots ==
    \A r1, r2 \in DOMAIN commits : \A a, b \in Refs :
        (DisjointRoots(r1, r2, a, b) /\ pc = "done")
            => locations[r1] = <<0, 0>> /\ X(r2) >= 1

\* A linear chain 1 <- 2 <- ... <- n, every commit labelled by the single ref
\* r, whose head tip is the last commit; no other ref exists.
IsChain(r) ==
    /\ DOMAIN commits # {}
    /\ \A h \in DOMAIN commits :
        /\ commits[h].ParentHashes = IF h = 1 THEN <<>> ELSE <<h - 1>>
        /\ RefsOf(h) = {r}
    /\ DOMAIN heads = {Cardinality(DOMAIN commits)}
    /\ heads[Cardinality(DOMAIN commits)] = <<r>>

\* C13: in a linear chain labelled by one ref with its tip at the end the k-th
\* commit is placed at (0, k); on every input the first commit of the sorted
\* sequence is placed at (0,0) and its refs enter the track table at level 0.
C13_LinearChain ==
    /\ \A r \in Refs : IsChain(r) => \A h \in Placed : locations[h] = <<0, h - 1>>
    /\ Placed # {} => locations[result[1]] = <<0, 0>>
    /\ Cardinality(Placed) = 1 => refsLevels = [r \in RefsOf(result[1]) |-> 0]

C13_Witness ==
    /\ pc = "done"
    /\ IsChain(Main)
    /\ Cardinality(Placed) = 3
    /\ caseOf[3] = "T"

\* The levels held by the refs of a track table.
Occupied(rl) == Range(rl)

\* The smallest non-negative integer that is not in S.
SmallestFree(S) == SetMin({n \in 0..(Cardinality(S)) : n \notin S})

\* C14: gap(refsLevels, refs=true) is the smallest non-negative integer that
\* is not the level of any ref in the table.
C14_GapSmallestFree ==
    (pc = "gapdone" /\ gapRefs) => gapResult = SmallestFree(Occupied(gapTable))

\* C20: gap returns 0 (refs=true) or 1 (refs=false) for an empty table; for a
\* non-empty table it ignores the flag and returns L+1 for the smallest
\* occupied level L whose successor is free, so never an occupied level.
C20_GapContract ==
    pc = "gapdone" =>
        LET occ == Occupied(gapTable) IN
        /\ occ = {} => gapResult = (IF gapRefs THEN 0 ELSE 1)
        /\ occ # {} =>
            /\ gapResult = SetMin({l \in occ : l + 1 \notin occ}) + 1
            /\ gapResult = gap(gapTable, ~gapRefs)
        /\ gapResult \notin occ

C20_Witness ==
    /\ pc = "gapdone"
    /\ Cardinality(Occupied(gapTable)) = 3
    /\ 0 \notin Occupied(gapTable)
    /\ gapResult < SetMax(Occupied(gapTable))
    /\ ~gapRefs

\* ctsort has left its loop.
SortFinished == pc # "start" /\ sortedCommits = <<>>

\* C19: ctsort terminates on every input, cyclic or with missing parents
\* included; its output holds every commit exactly once; the candidates stay
\* in ascending time order and a step with no ready candidate appends all of
\* them in that order and ends the sort.
C19_SortTerminates ==
    /\ <>SortFinished
    /\ [](SortFinished => /\ Range(result) = DOMAIN commits
                          /\ Len(result) = Cardinality(DOMAIN commits))
    /\ [](\A a, b \in DOMAIN sortedCommits :
            a < b => ~Before(sortedCommits[b], sortedCommits[a]))
    /\ [][(/\ pc = "ctsort"
           /\ sortedCommits # <<>>
           /\ \A c \in Range(sortedCommits) : parents[c] # {})
          => (result' = result \o sortedCommits /\ sortedCommits' = <<>>)]_vars

C19_Witness ==
    /\ SortFinished
    /\ Len(lastEmitted) = 2
    /\ \E a, b \in Range(lastEmitted) :
        a # b /\ a \in ParentsOf(b) /\ b \in ParentsOf(a)

\* The creation or the write of the HTML target failed.
HtmlFailed == out.html \in {"create failed", "write failed"}

\* C17: on an empty commit set arrangeCommits returns no position, the
\* locations written are empty, no stop and no rail is drawn, and the run ends
\* with status 0 after writing the SVG the flags ask for.
C17_EmptyDag ==
    DOMAIN commits = {} =>
        /\ locations = EmptyMap
        /\ out.positions = EmptyMap
        /\ out.stops = {} /\ out.rails = {}
        /\ (pc = "exit" /\ ~HtmlFailed) => (out.status = 0 /\ out.svg = WritesSVG)

C17_Witness ==
    /\ DOMAIN commits = {}
    /\ pc = "exit"
    /\ out.locationsFile = "written"
    /\ out.html = "written"
    /\ out.svg

\* C18: a failed write of the locations file is logged and the run goes on to
\* the HTML and SVG outputs as if it had succeeded; a failed creation or write
\* of the HTML target ends the process with a non-zero status and no SVG is
\* written to stdout.
C18_WriteFailures ==
    /\ out.locationsFile = "failed" => "Could not save locations" \in out.log
    /\ pc = "exit" =>
        /\ HtmlFailed => (out.status # 0 /\ out.status # -1 /\ ~out.svg)
        /\ ~HtmlFailed => /\ out.status = 0
                          /\ flags.htmlOut => out.html = "written"
                          /\ out.svg = WritesSVG

C18_Witness ==
    /\ pc = "exit"
    /\ out.locationsFile = "failed"
    /\ out.html = "write failed"
    /\ ~flags.htmlOnly /\ ~flags.noSVG
    /\ DOMAIN commits # {}

\* collectCommits has returned.
Collected == pc # "collect"

\* C15: every commit whose hash is a new hash of the reflog of refs/heads/main
\* is in the commit set, labelled refs/heads/main, and placed by the end of
\* the layout, reachable from a tip or not.
C15_ReflogLabelled ==
    (Collected /\ Main \in DOMAIN repository.Tips) =>
        \A h \in repository.Reflogs[Main] :
            /\ h \in DOMAIN commits
            /\ Main \in commits[h].References
            /\ pc = "done" => h \in Placed

\* The effective remote and merge values of the branch sections.
BranchConfig == ParseConfig(repository.Config, "", EmptyMap)

\* Some branch has remote = <r> and merge = refs/heads/<n> for the remote ref
\* name refs/remotes/<r>/<n>.
TrackedByFullMerge(name) ==
    \E b \in DOMAIN BranchConfig :
        /\ Len(BranchConfig[b].remote) = 1
        /\ Len(BranchConfig[b].merge) = 3
        /\ SubSeq(BranchConfig[b].merge, 1, 2) = <<"refs", "heads">>
        /\ RefParts[name] = <<"refs", "remotes", BranchConfig[b].remote[1],
                              BranchConfig[b].merge[3]>>

\* The ref labels exactly the commits of the set that its reflog names.
LabelsItsReflog(name) ==
    \A h \in DOMAIN commits :
        name \in commits[h].References <=> h \in repository.Reflogs[name]

LabelsNothing(name) == \A h \in DOMAIN commits : name \notin commits[h].References

\* C16: with --all a remote ref labels commits through its reflog if and only
\* if its name does not end in /HEAD and no branch has remote = <r> with
\* merge = refs/heads/<n>; otherwise, and without --all, it labels no commit.
C16_RemoteLabelling ==
    Collected =>
        \A name \in {x \in DOMAIN repository.Tips : IsRemote(x)} :
            IF repository.All /\ ~IsRemoteHEAD(name) /\ ~TrackedByFullMerge(name)
            THEN LabelsItsReflog(name)
            ELSE LabelsNothing(name)

\* The commit the next iteration of the placement loop places.
Cur == result[i + 2]

\* The step is an iteration of the placement loop that takes case k.
Placing(k) == pc = "place" /\ CaseOf(Cur, refsLevels) = k

\* The track the step gives to the commit it places.
NewX == locations'[Cur][1]

\* C21: a commit without refs whose lowest placed parent p still has children
\* later in the sorted sequence is placed at gap(refsLevels, false), and that
\* track differs from x(p), whatever the track table holds.
C21_MoveOffParent ==
    [][(/\ Placing("N")
        /\ PlacedParents(Cur, locations) # <<>>
        /\ FutureChildren(LowestParent(Cur, locations), i) # {})
       => /\ NewX = gap(refsLevels, FALSE)
          /\ NewX # locations[LowestParent(Cur, locations)][1]]_vars

\* C22: a commit that has refs, none of them in the track table, is placed at
\* gap(refsLevels, true), a level that no ref of the table holds at that
\* moment.
C22_FreshTrack ==
    [][Placing("S")
       => /\ NewX = gap(refsLevels, TRUE)
          /\ \A r \in DOMAIN refsLevels : refsLevels[r] # NewX]_vars

C22_Witness ==
    /\ Cardinality(Placed) >= 2
    /\ caseOf[LastPlaced] = "S"
    /\ X(LastPlaced) = 1
    /\ \E r \in DOMAIN refsLevels : r \notin RefsOf(LastPlaced) /\ refsLevels[r] = 0

\* C23: in Case T a commit whose only parent p is placed, and whose refs
\* include every ref of p that is in the track table (p may have none there),
\* is placed at x(p), also when the refs of p sit at another level.
C23_AbsorbParent ==
    [][Placing("T")
       => \A p \in DOMAIN locations :
            (/\ commits[Cur].ParentHashes = <<p>>
             /\ (RefsOf(p) \cap DOMAIN refsLevels) \subseteq RefsOf(Cur))
            => NewX = locations[p][1]]_vars

C23_Witness ==
    /\ Cardinality(Placed) >= 3
    /\ caseOf[LastPlaced] = "T"
    /\ \E p, q \in Placed :
        /\ commits[LastPlaced].ParentHashes = <<p>>
        /\ Y(p) < Y(q) /\ Y(q) + 1 = Y(LastPlaced)
        /\ RefsOf(p) \cap RefsOf(q) \cap RefsOf(LastPlaced) # {}
        /\ q \notin DOMAIN heads
        /\ X(q) # X(p)
        /\ X(LastPlaced) = X(p)

\* Parent p of h reaches the diverge rule: its tracked refs are not all refs
\* of h, and some level's share of h's tracked refs is a proper subset of them.
HandledByDiverge(h, p, rl) ==
    /\ ~(ParentTracked(p, rl) \subseteq CurrentRefs(h, rl))
    /\ Diverged(h, p, rl)

\* C24: in Case T a parent handled by the diverge rule shares a tracked ref
\* with the commit: some ref of the track table labels both, and the parent
\* has further tracked refs; a parent whose tracked refs are disjoint from
\* the commit's is never handled by the diverge rule.
C24_DivergeSharesRef ==
    (pc = "place" /\ CaseOf(Cur, refsLevels) = "T")
        => \A p \in KnownParents(Cur) :
            HandledByDiverge(Cur, p, refsLevels)
                => /\ CurrentRefs(Cur, refsLevels) \cap ParentTracked(p, refsLevels) # {}
                   /\ ParentTracked(p, refsLevels) \ CurrentRefs(Cur, refsLevels) # {}

\* The lowest level held by a tracked ref of h.
MinLevel(h, rl) == SetMin({rl[r] : r \in CurrentRefs(h, rl)})

\* C25: in Case T the candidate of a placed parent p with more than one child
\* that is handled by the diverge rule is never x(p): it is the lowest level of
\* the commit's tracked refs when that is not x(p), and gap(refsLevels, true)
\* otherwise.
C25_DivergePromotes ==
    (pc = "place" /\ CaseOf(Cur, refsLevels) = "T")
        => \A p \in KnownParents(Cur) \cap DOMAIN locations :
            (/\ HandledByDiverge(Cur, p, refsLevels)
             /\ Cardinality(ChildrenAt(p)) > 1)
            => /\ XForParent(Cur, p, refsLevels, locations) =
                    {IF MinLevel(Cur, refsLevels) # locations[p][1]
                     THEN MinLevel(Cur, refsLevels)
                     ELSE gap(refsLevels, TRUE)}
               /\ locations[p][1] \notin XForParent(Cur, p, refsLevels, locations)

C25_Witness ==
    /\ pc = "place"
    /\ CaseOf(Cur, refsLevels) = "T"
    /\ \E p \in KnownParents(Cur) \cap DOMAIN locations :
        /\ HandledByDiverge(Cur, p, refsLevels)
        /\ Cardinality(ChildrenAt(p)) > 1
        /\ CurrentRefs(Cur, refsLevels) \cap ParentTracked(p, refsLevels) # {}
        /\ MinLevel(Cur, refsLevels) = locations[p][1]

TipRefs(h) == IF h \in DOMAIN heads THEN Range(heads[h]) ELSE {}

LowestParents(h, locs) ==
    LET pp == Range(PlacedParents(h, locs)) IN
    {p \in pp : \A q \in pp : locs[p][1] <= locs[q][1]}

\* C28: the track chosen for the next commit does not depend on an enumeration
\* order: in Case N every placed parent of smallest x gives the same track
\* when it is taken as the lowest parent, and in Case T one track results
\* whichever level or ref is visited first.
C28_OrderIndependent ==
    pc = "place" =>
        /\ CaseOf(Cur, refsLevels) = "N" =>
            \A p, q \in LowestParents(Cur, locations) :
                CaseNWith(p, i, refsLevels, locations)
                    = CaseNWith(q, i, refsLevels, locations)
        /\ CaseOf(Cur, refsLevels) = "T" =>
            Cardinality(CaseT(Cur, refsLevels, locations)) = 1

\* C29: a ref whose head-tip commit has been placed is not in the track table,
\* in every later state of the layout and at its end.
C29_UntrackedForGood ==
    \A h \in Placed \cap DOMAIN heads :
        \A r \in TipRefs(h) : r \notin DOMAIN refsLevels

\* A word is a hash in hexadecimal: HexLen hexadecimal digits.
IsHexHash(w) == Len(w) = HexLen /\ \A k \in DOMAIN w : IsHexChar(w[k])

\* The second fields of the lines that are non-zero hashes, in file order.
RECURSIVE NewHashesIn(_)
NewHashesIn(lines) ==
    IF lines = <<>> THEN <<>>
    ELSE LET fields == Fields(Head(lines))
             taken == /\ Len(fields) >= 2
                      /\ IsHexHash(fields[2])
                      /\ fields[2] # ZeroHex
         IN (IF taken THEN <<fields[2]>> ELSE <<>>) \o NewHashesIn(Tail(lines))

\* s without the repetitions of its elements, in order of first occurrence.
RECURSIVE Distinct(_)
Distinct(s) ==
    IF s = <<>> THEN <<>>
    ELSE LET front == Distinct(SubSeq(s, 1, Len(s) - 1))
         IN IF s[Len(s)] \in Range(front) THEN front ELSE Append(front, s[Len(s)])

\* C30: ReadReflogNewHashes returns without error the distinct non-zero hashes
\* that are the second field of a line, each once, in order of first
\* occurrence; every other line is skipped and changes nothing, and a missing
\* file gives the empty result.
C30_ReflogNewHashes ==
    (pc = "reflogdone" /\ reflog.file.kind # "unreadable")
        => LET expected == Distinct(NewHashesIn(reflog.file.lines)) IN
           /\ reflog.err = "none"
           /\ reflog.ret = [k \in DOMAIN expected |-> NewHash(expected[k])]

====
